---------------------------- MODULE Spec2Model ----------------------------
(***************************************************************************)
(* PPM image loading and saving of utils/Utils.h: PPMLoader (open,         *)
(* is_open, init_image, fill_image) and save_to_ppm, over a byte-level     *)
(* file system, a std::ifstream with its state bits and exception mask,    *)
(* and tensors with a format, a shape, a mapped flag and their bytes.      *)
(*                                                                         *)
(* Every handler is one action.  The error macros are taken with           *)
(* assertions enabled: ARM_COMPUTE_ERROR_ON and ARM_COMPUTE_ERROR_ON_MSG   *)
(* raise when their condition holds, ARM_COMPUTE_ERROR always raises.      *)
(***************************************************************************)
EXTENDS Integers, Sequences, FiniteSets, TLC

(***************************************************************************)
(* Bounds of the model.                                                    *)
(***************************************************************************)
\* Widths and heights of the tensors handed to save_to_ppm: 1..MaxW, 1..MaxH.
MaxW == 2
MaxH == 2
\* A device fault may hit after 0..MaxFault pixel bytes of one operation.
MaxFault == 1

(***************************************************************************)
(* Bytes.  A file is a sequence of bytes 0..255; text is ASCII.            *)
(***************************************************************************)
NoFile == <<-1>>
NoFault == 0 - 1

ChP == 80
Ch6 == 54
ChNL == 10
ChSP == 32
ChHash == 35
Ch0 == 48

IsSpace(c) == c \in {9, 10, 11, 12, 13, 32}
IsDigit(c) == c >= 48 /\ c <= 57

Take(s, n) == SubSeq(s, 1, IF n < Len(s) THEN n ELSE Len(s))
Min(a, b) == IF a < b THEN a ELSE b

(***************************************************************************)
(* operator<<(unsigned int): decimal digits, most significant first.       *)
(***************************************************************************)
RECURSIVE FormatUInt(_)
FormatUInt(n) ==
    IF n < 10 THEN << Ch0 + n >>
    ELSE Append(FormatUInt(n \div 10), Ch0 + (n % 10))

\* A plausible slip: width and height written in the other order.
HeaderBytesSwapped(width, height) ==
    << ChP, Ch6, ChNL >> \o FormatUInt(height) \o << ChSP >> \o FormatUInt(width)
        \o << ChSP, 50, 53, 53, ChNL >>

\* fs << "P6\n" << width << " " << height << " 255\n"
HeaderBytes(width, height) ==
    << ChP, Ch6, ChNL >> \o FormatUInt(width) \o << ChSP >> \o FormatUInt(height)
        \o << ChSP, 50, 53, 53, ChNL >>

(***************************************************************************)
(* parse_ppm_header, on the bytes of the file from offset 0.  A position   *)
(* p is the number of bytes consumed; byte p+1 is the next one.            *)
(***************************************************************************)
Peek(b, p) == IF p < Len(b) THEN b[p + 1] ELSE -1

\* Skip to just after the next '\n' (or to end of file).
RECURSIVE IgnoreLine(_, _)
IgnoreLine(b, p) ==
    IF p >= Len(b) THEN p
    ELSE IF b[p + 1] = ChNL THEN p + 1
    ELSE IgnoreLine(b, p + 1)

\* Skip whitespace and '#' comments; stops at the first other byte or at EOF.
RECURSIVE DiscardCommentsAndSpaces(_, _)
DiscardCommentsAndSpaces(b, p) ==
    IF Peek(b, p) = ChHash THEN DiscardCommentsAndSpaces(b, IgnoreLine(b, p))
    ELSE IF IsSpace(Peek(b, p)) THEN DiscardCommentsAndSpaces(b, p + 1)
    ELSE p

RECURSIVE SkipWs(_, _)
SkipWs(b, p) == IF IsSpace(Peek(b, p)) THEN SkipWs(b, p + 1) ELSE p

\* fs >> n for an unsigned decimal: [ok, val, pos]; ok is FALSE (failbit) when no
\* digit is there.  The files of the model hold at most five digits.
RECURSIVE ReadDigits(_, _, _)
ReadDigits(b, p, acc) ==
    IF IsDigit(Peek(b, p)) THEN ReadDigits(b, p + 1, acc * 10 + (b[p + 1] - Ch0))
    ELSE [val |-> acc, pos |-> p]

ReadUInt(b, p) ==
    LET q == SkipWs(b, p)
        r == ReadDigits(b, q, 0)
    IN  [ok |-> r.pos > q, val |-> r.val, pos |-> r.pos]

\* The result of parse_ppm_header: kind is "ok", "magic" (not "P6": Invalid file
\* type), or "stream" (the stream failed: truncated or malformed header).
ParseFail(kind, p) == [kind |-> kind, width |-> 0, height |-> 0, max_val |-> 0, pos |-> p]

parse_ppm_header(b) ==
    LET m1 == SkipWs(b, 0)
        m2 == SkipWs(b, m1 + 1)
    IN
    IF m1 >= Len(b) \/ m2 >= Len(b) THEN ParseFail("stream", Len(b))
    ELSE IF b[m1 + 1] # ChP \/ b[m2 + 1] # Ch6 THEN ParseFail("magic", m2 + 1)
    ELSE
      LET w == ReadUInt(b, DiscardCommentsAndSpaces(b, m2 + 1)) IN
      IF ~w.ok THEN ParseFail("stream", w.pos)
      ELSE
        LET h == ReadUInt(b, DiscardCommentsAndSpaces(b, w.pos)) IN
        IF ~h.ok THEN ParseFail("stream", h.pos)
        ELSE
          LET v == ReadUInt(b, DiscardCommentsAndSpaces(b, h.pos)) IN
          IF ~v.ok THEN ParseFail("stream", v.pos)
          ELSE IF ~IsSpace(Peek(b, v.pos)) THEN ParseFail("stream", v.pos)
          ELSE [kind |-> "ok", width |-> w.val, height |-> h.val,
                max_val |-> v.val, pos |-> v.pos + 1]


(***************************************************************************)
(* Single-precision arithmetic of line 229.  A non-negative real below 512 *)
(* is a pair <<I, F>> standing for I + F / 2^27: every float met here is a *)
(* multiple of 2^-27, and so is every exact product and sum of them.       *)
(***************************************************************************)
RECURSIVE Pow2(_)
Pow2(n) == IF n = 0 THEN 1 ELSE 2 * Pow2(n - 1)

Two27 == Pow2(27)

\* floor(log2 n) for n >= 1
RECURSIVE Log2(_)
Log2(n) == IF n < 2 THEN 0 ELSE 1 + Log2(n \div 2)

\* Round q-multiples to nearest, ties to even: f rounded to a multiple of q.
RoundToMultiple(f, q) ==
    LET n == f \div q
        r == f % q
        up == (2 * r > q) \/ (2 * r = q /\ n % 2 = 1)
    IN  (IF up THEN n + 1 ELSE n) * q

\* The binary32 value nearest to I + F/2^27 (24 significant bits).
RoundF32(v) ==
    LET I == v[1]
        F == v[2]
        \* spacing of binary32 around the value, in units of 2^-27
        q == IF I >= 1 THEN Pow2(Log2(I) + 4)
             ELSE IF F >= 16777216 THEN Pow2(Log2(F) - 23)
             ELSE 1
        G == RoundToMultiple(F, q)
    IN  IF G >= Two27 THEN << I + 1, G - Two27 >> ELSE << I, G >>

\* The exact product of the weight W / 2^27 and the integer c in 0..255.
MulExact(W, c) ==
    LET Wh == W \div 16384
        Wl == W % 16384
        A == Wh * c
        T == (A % 8192) * 16384 + Wl * c
    IN  << (A \div 8192) + (T \div Two27), T % Two27 >>

AddExact(a, b) ==
    LET f == a[2] + b[2]
    IN  << a[1] + b[1] + (f \div Two27), f % Two27 >>

MulF32(W, c) == RoundF32(MulExact(W, c))
AddF32(a, b) == RoundF32(AddExact(a, b))

\* The float literals 0.2126f, 0.7152f, 0.0722f as multiples of 2^-27:
\* 891709/2^22, 11999065/2^24, 1211315/2^24.
WeightRed == 28534688
WeightGreen == 95992520
WeightBlue == 9690520

\* A plausible slip: the red and blue weights exchanged (BGR for RGB).
LuminanceBGR(red, green, blue) ==
    AddF32(AddF32(MulF32(WeightBlue, red), MulF32(WeightGreen, green)),
           MulF32(WeightRed, blue))[1]

\* *out.ptr() = 0.2126f * red + 0.7152f * green + 0.0722f * blue;
\* each product and each sum rounded to binary32, left to right, and the
\* float converted to unsigned char by truncation.
Luminance(red, green, blue) ==
    AddF32(AddF32(MulF32(WeightRed, red), MulF32(WeightGreen, green)),
           MulF32(WeightBlue, blue))[1]

(***************************************************************************)
(* Tensors: a format, a shape (dimension 0 first), row-major bytes without *)
(* padding, whether allocated, and whether currently mapped.               *)
(***************************************************************************)
Formats == {"U8", "RGB888", "F32"}

element_size(format) ==
    CASE format = "U8" -> 1
      [] format = "RGB888" -> 3
      [] OTHER -> 4

\* tensor_shape()[i], i counted from 0: a dimension the shape lacks is 1.
Dim(shape, i) == IF i < Len(shape) THEN shape[i + 1] ELSE 1

RECURSIVE total_size(_)
total_size(shape) == IF shape = <<>> THEN 1 ELSE Head(shape) * total_size(Tail(shape))

num_dimensions(shape) == Len(shape)

Palette == << 13, 13, 13, 255, 0, 200, 10, 35, 255, 255, 255 >>

\* Two data patterns per tensor, by where in the palette the bytes start.
Seeds == {0, 1}

PatternData(seed, n) == [k \in 1..n |-> Palette[((seed * 3 + k - 1) % Len(Palette)) + 1]]

Zeros(n) == [k \in 1..n |-> 0]

Tensor(format, shape, data) ==
    [format |-> format, shape |-> shape, data |-> data, allocated |-> TRUE, mapped |-> FALSE]

NoTensor ==
    [format |-> "none", shape |-> <<>>, data |-> <<>>, allocated |-> FALSE, mapped |-> FALSE]

\* The shapes of the tensors the caller hands to save_to_ppm: one- and
\* two-dimensional, and one whose width takes two decimal digits.  SaveTensors
\* adds an F32 tensor and two three-dimensional ones.
SaveShapes ==
    {<< w >> : w \in 1..MaxW}
        \cup {<< w, h >> : w \in 1..MaxW, h \in 1..MaxH}
        \cup {<< 10, 1 >>}

SaveTensors ==
    {Tensor(f, sh, PatternData(seed, total_size(sh) * element_size(f))) :
        f \in {"U8", "RGB888"}, sh \in SaveShapes, seed \in Seeds}
        \cup {Tensor("F32", << 1, 1 >>, Zeros(4)),
              Tensor("U8", << 1, 1, 2 >>, PatternData(0, 2)),
              Tensor("RGB888", << 1, 1, 2 >>, PatternData(0, 6))}

\* Images the caller built itself instead of through init_image.
CallerImages ==
    {Tensor("F32", << 1, 1 >>, Zeros(4)), Tensor("U8", << 3, 1 >>, Zeros(3)),
     Tensor("RGB888", << 1, 1, 2 >>, Zeros(6))}

(***************************************************************************)
(* The file system.                                                        *)
(***************************************************************************)
InputPaths ==
    {"good.ppm", "comment.ppm", "short.ppm", "tiny.ppm", "long.ppm", "max256.ppm",
     "max65535.ppm", "trunc.ppm", "malformed.ppm", "p5.ppm", "empty.ppm", "missing.ppm"}

\* "ro.ppm" cannot be created or written.
OutputPaths == {"out.ppm", "ro.ppm"}
Writable(path) == path = "out.ppm"

InputFile(path) ==
    CASE path = "good.ppm" ->      \* "P6\n2 2\n255\n", four pixels, four more bytes
           << 80, 54, 10, 50, 32, 50, 10, 50, 53, 53, 10,
              255, 0, 0, 13, 13, 13, 255, 255, 255, 0, 0, 0, 9, 9, 9, 9 >>
      [] path = "comment.ppm" ->   \* "P6\n# c\n2 1\n255\n" and two pixels
           << 80, 54, 10, 35, 32, 99, 10, 50, 32, 49, 10, 50, 53, 53, 10,
              200, 200, 200, 31, 31, 31 >>
      [] path = "short.ppm" ->     \* "P6\n2 2 255\n" and five bytes
           << 80, 54, 10, 50, 32, 50, 32, 50, 53, 53, 10, 6, 88, 94, 7, 143 >>
      [] path = "tiny.ppm" ->      \* "P6\n2 2 255\n" and two bytes
           << 80, 54, 10, 50, 32, 50, 32, 50, 53, 53, 10, 1, 2 >>
      [] path = "long.ppm" ->      \* "P6\n1 1 255\n" and seven bytes
           << 80, 54, 10, 49, 32, 49, 32, 50, 53, 53, 10, 10, 20, 30, 40, 50, 60, 70 >>
      [] path = "max256.ppm" ->    \* "P6\n1 1 256\n" and one pixel
           << 80, 54, 10, 49, 32, 49, 32, 50, 53, 54, 10, 1, 2, 3 >>
      [] path = "max65535.ppm" ->  \* "P6\n2 1 65535\n" and two pixels
           << 80, 54, 10, 50, 32, 49, 32, 54, 53, 53, 51, 53, 10, 1, 2, 3, 4, 5, 6 >>
      [] path = "trunc.ppm" ->     \* "P6\n2 "
           << 80, 54, 10, 50, 32 >>
      [] path = "malformed.ppm" -> \* "P6\nx 2 255\n" and one pixel
           << 80, 54, 10, 120, 32, 50, 32, 50, 53, 53, 10, 1, 2, 3 >>
      [] path = "p5.ppm" ->        \* "P5\n1 1 255\n" and one byte
           << 80, 53, 10, 49, 32, 49, 32, 50, 53, 53, 10, 9 >>
      [] path = "empty.ppm" ->     \* "P6\n0 0 255\n"
           << 80, 54, 10, 48, 32, 48, 32, 50, 53, 53, 10 >>
      [] OTHER -> NoFile

(***************************************************************************)
(* The stream.                                                             *)
(***************************************************************************)
\* A plausible slip: no exception mask set, failures stay silent.
ExceptionMaskNone == {}

\* _fs.exceptions(std::ifstream::failbit | std::ifstream::badbit)
ExceptionMask == {"failbit", "badbit"}

Throws(bits) == bits \cap ExceptionMask # {}

\* A plausible slip: seeking to the start of the file instead of back.
SeekgStart(current_position) == 0

\* _fs.seekg(current_position, std::ios_base::beg)
SeekgBeg(current_position) == current_position

\* image.info()->tensor_shape().total_size() * image.info()->element_size()
RequiredBytes(t) == total_size(t.shape) * element_size(t.format)

\* The bytes of the file at path, or NoFile: the input files never change.
File(files, path) == IF path \in DOMAIN files THEN files[path] ELSE InputFile(path)

VARIABLES
    fsys,     \* the files that can change: output path -> bytes, or NoFile
    saved,    \* history: the tensor out.ppm holds since a save_to_ppm that returned
    loader,   \* the PPMLoader: its stream _fs and _width, _height
    image,    \* the image handed to init_image and fill_image
    last      \* the last call: what it was, how it ended, what it did

vars == << fsys, saved, loader, image, last >>

Call(op, result, msg) ==
    [op |-> op, result |-> result, msg |-> msg, events |-> <<>>,
     start |-> 0, good |-> TRUE, fault |-> NoFault, remaining |-> 0, nread |-> 0,
     nwritten |-> 0, filledBefore |-> FALSE, streamFailed |-> FALSE,
     arg |-> NoTensor, path |-> ""]

Init ==
    /\ fsys = [p \in OutputPaths |-> NoFile]
    /\ saved = NoTensor
    /\ loader = [is_open |-> FALSE, path |-> "", pos |-> 0, state |-> {},
                 width |-> 0, height |-> 0, filled |-> FALSE]
    /\ image = NoTensor
    /\ last = Call("none", "ok", "")

(***************************************************************************)
(* PPMLoader::open                                                         *)
(***************************************************************************)
Open(path) ==
    LET bytes == File(fsys, path)
        hdr == parse_ppm_header(IF bytes = NoFile THEN <<>> ELSE bytes)
        entry(result, msg) ==
            [Call("open", result, msg) EXCEPT !.path = path, !.good = loader.state = {}]
    IN
    /\ UNCHANGED << fsys, saved, image >>
    /\ IF loader.is_open
       THEN \* ARM_COMPUTE_ERROR_ON(is_open())
            /\ last' = entry("PreconditionViolation", "is_open")
            /\ UNCHANGED loader
       ELSE IF Throws(loader.state)
       THEN \* exceptions() rethrows on a stream whose state already holds a masked bit
            /\ last' = entry("IOError", "Accessing")
            /\ UNCHANGED loader
       ELSE IF bytes = NoFile
       THEN \* _fs.open fails: failbit, the stream is not open
            /\ loader' = [loader EXCEPT !.state = {"failbit"}]
            /\ last' = entry(IF Throws({"failbit"}) THEN "IOError" ELSE "ParseError",
                             IF Throws({"failbit"}) THEN "Accessing" ELSE "Invalid file type")
       ELSE IF hdr.kind = "stream"
       THEN \* the header ends early or holds no number where one is due
            /\ loader' = [loader EXCEPT !.is_open = TRUE, !.path = path, !.pos = hdr.pos,
                              !.state = IF hdr.pos >= Len(bytes) THEN {"eofbit", "failbit"}
                                        ELSE {"failbit"},
                              !.filled = FALSE]
            /\ last' = entry(IF Throws({"failbit"}) THEN "IOError" ELSE "ParseError",
                             IF Throws({"failbit"}) THEN "Accessing" ELSE "Invalid PPM header")
       ELSE IF hdr.kind = "magic"
       THEN /\ loader' = [loader EXCEPT !.is_open = TRUE, !.path = path, !.pos = hdr.pos,
                              !.state = {}, !.filled = FALSE]
            /\ last' = entry("ParseError", "Invalid file type")
       ELSE IF hdr.max_val >= 256
       THEN \* std::tie has assigned _width and _height before the check
            /\ loader' = [loader EXCEPT !.is_open = TRUE, !.path = path, !.pos = hdr.pos,
                              !.state = {}, !.width = hdr.width, !.height = hdr.height,
                              !.filled = FALSE]
            /\ last' = entry("ParseError", "2 bytes per colour channel not supported")
       ELSE /\ loader' = [loader EXCEPT !.is_open = TRUE, !.path = path, !.pos = hdr.pos,
                              !.state = {}, !.width = hdr.width, !.height = hdr.height,
                              !.filled = FALSE]
            /\ last' = entry("ok", "")

\* PPMLoader::is_open
is_open == loader.is_open

(***************************************************************************)
(* PPMLoader::init_image; the caller allocates the image afterwards.       *)
(***************************************************************************)
InitImage(format) ==
    /\ UNCHANGED << fsys, saved, loader >>
    /\ IF ~is_open
       THEN /\ last' = Call("init_image", "PreconditionViolation", "!is_open")
            /\ UNCHANGED image
       ELSE IF format # "RGB888" /\ format # "U8"
       THEN /\ last' = Call("init_image", "PreconditionViolation", "format")
            /\ UNCHANGED image
       ELSE /\ image' = [format |-> format, shape |-> << loader.width, loader.height >>,
                         data |-> <<>>, allocated |-> FALSE, mapped |-> image.mapped]
            /\ last' = Call("init_image", "ok", "")

\* image.allocator()->allocate(), by the caller
Allocate ==
    /\ image.format # "none"
    /\ ~image.allocated
    /\ image' = [image EXCEPT !.allocated = TRUE, !.data = Zeros(RequiredBytes(image))]
    /\ last' = Call("allocate", "ok", "")
    /\ UNCHANGED << fsys, saved, loader >>

\* The caller hands in an image it built itself.
CallerImage(t) ==
    /\ image' = t
    /\ last' = Call("caller_image", "ok", "")
    /\ UNCHANGED << fsys, saved, loader >>

(***************************************************************************)
(* PPMLoader::fill_image.  fault is the number of bytes the device still   *)
(* delivers in this call before it fails (badbit), or NoFault.             *)
(***************************************************************************)
Accesses(n) == [i \in 1..n |-> "access"]

ReadFaults == {NoFault} \cup 0..MaxFault

\* The bytes of the image after the U8 loop wrote `written` pixels from src;
\* a byte the stream did not deliver reads as (unsigned char) EOF = 255.
FillU8(old, src, written) ==
    LET B(i) == IF i <= Len(src) THEN src[i] ELSE 255
    IN  [k \in 1..Len(old) |->
            IF k <= written
            THEN Luminance(B(3 * k - 2), B(3 * k - 1), B(3 * k))
            ELSE old[k]]

\* The bytes of the image after the RGB888 loop stored src row by row.
FillRGB888(old, src) == [k \in 1..Len(old) |-> IF k <= Len(src) THEN src[k] ELSE old[k]]

FillImage(fault) ==
    LET bytes == File(fsys, loader.path)
        w == loader.width
        h == loader.height
        good == loader.state = {}
        current_position == loader.pos
        end_position == Len(bytes)
        remaining == IF good THEN end_position - current_position ELSE 0
        seek == SeekgBeg(current_position)
        avail == IF good THEN end_position - seek ELSE 0
        needed == w * h * 3
        limit == IF fault = NoFault THEN avail ELSE Min(avail, fault)
        complete == limit >= needed
        bits == IF fault # NoFault /\ fault <= avail THEN {"badbit"} ELSE {"eofbit", "failbit"}
        thrown == ~complete /\ Throws(bits)
        nread == Min(limit, needed)
        src == SubSeq(bytes, seek + 1, seek + nread)
        u8 == image.format = "U8"
        written == IF u8 THEN (IF thrown THEN nread \div 3 ELSE w * h) ELSE nread
        steps == IF u8 THEN written
                 ELSE IF thrown THEN (nread \div (w * 3)) + 1 ELSE h
        entry(result, msg) ==
            [Call("fill_image", result, msg) EXCEPT
                !.start = current_position, !.good = good, !.fault = fault,
                !.filledBefore = loader.filled, !.path = loader.path]
        failing(msg, ev, st) ==
            /\ last' = [entry("IOError", msg) EXCEPT
                           !.events = ev, !.remaining = remaining, !.streamFailed = st]
            /\ image' = [image EXCEPT !.mapped = TRUE]
    IN
    /\ image.allocated
    /\ UNCHANGED << fsys, saved >>
    /\ IF ~is_open
       THEN /\ last' = entry("PreconditionViolation", "!is_open")
            /\ UNCHANGED << loader, image >>
       ELSE IF Dim(image.shape, 0) # w \/ Dim(image.shape, 1) # h
       THEN /\ last' = entry("PreconditionViolation", "dimensions")
            /\ UNCHANGED << loader, image >>
       ELSE IF image.format # "U8" /\ image.format # "RGB888"
       THEN /\ last' = entry("PreconditionViolation", "format")
            /\ UNCHANGED << loader, image >>
       ELSE IF ~good /\ Throws({"failbit"})
       THEN \* map(image, true); tellg() on a stream that is not good sets failbit
            /\ failing("Loading PPM file", << "map" >>, TRUE)
            /\ loader' = [loader EXCEPT !.state = @ \cup {"failbit"}]
       ELSE IF remaining < RequiredBytes(image)
       THEN \* ARM_COMPUTE_ERROR_ON_MSG(..., "Not enough data in file")
            /\ failing("Not enough data in file", << "map" >>, FALSE)
            /\ loader' = [loader EXCEPT !.pos = seek]
       ELSE /\ loader' = [loader EXCEPT !.pos = seek + nread,
                              !.state = IF complete THEN @ ELSE @ \cup bits,
                              !.filled = @ \/ ~thrown]
            /\ image' = [image EXCEPT
                            !.data = IF u8 THEN FillU8(@, src, written) ELSE FillRGB888(@, src),
                            !.mapped = thrown]
            /\ last' = [entry(IF thrown THEN "IOError" ELSE "ok",
                              IF thrown THEN "Loading PPM file" ELSE "") EXCEPT
                           !.events = << "map" >> \o Accesses(steps)
                                        \o (IF thrown THEN <<>> ELSE << "unmap" >>),
                           !.remaining = remaining, !.nread = nread, !.nwritten = written,
                           !.streamFailed = ~complete]

(***************************************************************************)
(* save_to_ppm.  fault says where the device stops taking bytes: NoFault,  *)
(* HeaderFault (while the header is written), or after that many pixel     *)
(* bytes.  The ofstream's mask holds failbit, badbit and eofbit, so every  *)
(* failure throws.                                                         *)
(***************************************************************************)
HeaderFault == 0 - 2
WriteFaults == {NoFault, HeaderFault} \cup 0..MaxFault

\* A plausible slip: the gray value written once instead of three times.
PixelBytesOnce(t) == t.data

\* The pixel bytes save_to_ppm writes, in order: fs << value << value << value
\* per pixel for U8, the rows as they are for RGB888.
PixelBytes(t) ==
    IF t.format = "U8"
    THEN [k \in 1..(3 * Len(t.data)) |-> t.data[((k - 1) \div 3) + 1]]
    ELSE t.data

\* ARM_COMPUTE_ERROR_ON(tensor.info()->num_dimensions() > 2)
RejectedShape(shape) == num_dimensions(shape) > 2

SaveToPpm(t, path, fault) ==
    LET width == Dim(t.shape, 0)
        height == Dim(t.shape, 1)
        header == HeaderBytes(width, height)
        pixels == PixelBytes(t)
        faulty == fault # NoFault /\ fault # HeaderFault /\ fault < Len(pixels)
        \* loop steps begun: one per pixel (U8), one per row (RGB888)
        per == IF t.format = "U8" THEN 3 ELSE width * 3
        steps == IF faulty THEN (fault \div per) + 1
                 ELSE IF t.format = "U8" THEN width * height ELSE height
    IN
    /\ ~(loader.is_open /\ loader.path = path)   \* no file is rewritten while it is read
    /\ UNCHANGED << loader, image >>
    /\ IF t.format # "RGB888" /\ t.format # "U8"
       THEN /\ last' = [Call("save_to_ppm", "PreconditionViolation", "format")
                           EXCEPT !.arg = t, !.path = path]
            /\ UNCHANGED << fsys, saved >>
       ELSE IF RejectedShape(t.shape)
       THEN /\ last' = [Call("save_to_ppm", "PreconditionViolation", "num_dimensions")
                           EXCEPT !.arg = t, !.path = path]
            /\ UNCHANGED << fsys, saved >>
       ELSE IF ~Writable(path)
       THEN \* fs.open fails
            /\ last' = [Call("save_to_ppm", "IOError", "Writing")
                           EXCEPT !.arg = t, !.path = path, !.streamFailed = TRUE]
            /\ UNCHANGED << fsys, saved >>
       ELSE IF fault = HeaderFault
       THEN \* the file is created empty, the header does not get through
            /\ fsys' = [fsys EXCEPT ![path] = <<>>]
            /\ saved' = NoTensor
            /\ last' = [Call("save_to_ppm", "IOError", "Writing")
                           EXCEPT !.arg = t, !.path = path, !.streamFailed = TRUE,
                                  !.fault = fault]
       ELSE IF faulty
       THEN /\ fsys' = [fsys EXCEPT ![path] = header \o Take(pixels, fault)]
            /\ saved' = NoTensor
            /\ last' = [Call("save_to_ppm", "IOError", "Writing")
                           EXCEPT !.arg = [t EXCEPT !.mapped = TRUE], !.path = path,
                                  !.streamFailed = TRUE, !.nwritten = fault, !.fault = fault,
                                  !.events = << "map" >> \o Accesses(steps)]
       ELSE /\ fsys' = [fsys EXCEPT ![path] = header \o pixels]
            /\ saved' = t
            /\ last' = [Call("save_to_ppm", "ok", "")
                           EXCEPT !.arg = t, !.path = path, !.nwritten = Len(pixels),
                                  !.events = << "map" >> \o Accesses(steps) \o << "unmap" >>]

(***************************************************************************)
(* Three specifications.  Spec is the pipeline: tensors are saved to       *)
(* out.ppm, the loader opens out.ppm and fills images from it.  SpecLoad   *)
(* is the loader on the input files; SpecSave is save_to_ppm alone, on a   *)
(* writable and on an unwritable path.                                     *)
(***************************************************************************)
Next ==
    \/ Open("out.ppm")
    \/ \E format \in Formats : InitImage(format)
    \/ Allocate
    \/ \E t \in CallerImages : CallerImage(t)
    \/ \E fault \in ReadFaults : FillImage(fault)
    \/ \E t \in SaveTensors, fault \in WriteFaults : SaveToPpm(t, "out.ppm", fault)

Spec == Init /\ [][Next]_vars

NextLoad ==
    \/ \E path \in InputPaths : Open(path)
    \/ \E format \in Formats : InitImage(format)
    \/ Allocate
    \/ \E t \in CallerImages : CallerImage(t)
    \/ \E fault \in ReadFaults : FillImage(fault)

SpecLoad == Init /\ [][NextLoad]_vars

NextSave ==
    \E t \in SaveTensors, path \in OutputPaths, fault \in WriteFaults :
        SaveToPpm(t, path, fault)

SpecSave == Init /\ [][NextSave]_vars

(***************************************************************************)
(* The claims.                                                             *)
(***************************************************************************)
Count(ev, x) == Cardinality({i \in 1..Len(ev) : ev[i] = x})

IsFill == last.op = "fill_image"
IsSave == last.op = "save_to_ppm"
IsOpen == last.op = "open"
Failed == last.result # "ok"

\* C1: after fill_image or save_to_ppm has mapped the buffer, however the call
\* ends, unmap was called exactly once for the one map, the buffer is not left
\* mapped, and no pixel access came before the map.
C1_UnmapOnEveryExit ==
    (IsFill \/ IsSave) /\ Count(last.events, "map") > 0 =>
        /\ Count(last.events, "map") = 1
        /\ Count(last.events, "unmap") = 1
        /\ last.events[1] = "map"
        /\ last.events[Len(last.events)] = "unmap"
        /\ IsFill => ~image.mapped
        /\ IsSave => ~last.arg.mapped

\* C2: when open ends in an error (file cannot be opened, header malformed or
\* truncated, max value >= 256), is_open() is false afterwards.
C2_FailedOpenLeavesClosed ==
    IsOpen /\ last.result \in {"IOError", "ParseError"} => ~is_open

\* C3: for either destination format, when fewer than width*height*3 bytes
\* remain in a good stream, fill_image fails in the up-front check with "Not
\* enough data in file", no byte read from the stream and none written.
C3_InsufficientDataUpFront ==
    /\ IsFill
    /\ last.result # "PreconditionViolation"
    /\ last.good
    /\ last.remaining < loader.width * loader.height * 3
    => /\ last.result = "IOError"
       /\ last.msg = "Not enough data in file"
       /\ last.nread = 0
       /\ last.nwritten = 0

\* The header's max value of the file the loader holds (0 when it holds none
\* or the header does not parse).
HeldMaxVal ==
    IF loader.path = "" THEN 0
    ELSE LET hdr == parse_ppm_header(File(fsys, loader.path))
         IN  IF hdr.kind = "ok" THEN hdr.max_val ELSE 0

\* C4: for a header whose max value is 256 or more, open fails, and no later
\* fill_image reads pixel data from that file.
C4_MaxValNeverFilled ==
    HeldMaxVal >= 256 =>
        /\ IsOpen => Failed
        /\ IsFill => last.nread = 0

\* What out.ppm holds is a two-dimensional RGB888 tensor saved whole.
SavedRGB888 ==
    /\ saved.format = "RGB888"
    /\ num_dimensions(saved.shape) = 2

\* C5: round trip.  After save_to_ppm of a two-dimensional RGB888 tensor, open
\* of that file by a loader that has opened nothing before succeeds with the tensor's width and height and the position at
\* the first pixel byte, and fill_image from there into an RGB888 image of the
\* same shape, the device not failing, succeeds and leaves the tensor's bytes.
C5_RoundTrip ==
    SavedRGB888 /\ last.path = "out.ppm" =>
        /\ IsOpen /\ last.result # "PreconditionViolation" /\ last.good =>
              /\ last.result = "ok"
              /\ loader.width = saved.shape[1]
              /\ loader.height = saved.shape[2]
              /\ loader.pos = Len(fsys["out.ppm"]) - Len(saved.data)
        /\ ( /\ IsFill
             /\ image.format = "RGB888"
             /\ image.shape = saved.shape
             /\ last.good
             /\ last.start = Len(fsys["out.ppm"]) - Len(saved.data)
             /\ last.fault = NoFault )
           => /\ last.result = "ok"
              /\ image.data = saved.data

\* A round trip of a tensor wider than high, with bytes in it, has filled.
C5_Witness ==
    /\ SavedRGB888
    /\ IsFill
    /\ last.path = "out.ppm"
    /\ last.result = "ok"
    /\ image.format = "RGB888"
    /\ saved.shape = << 2, 1 >>
    /\ image.data = saved.data
    /\ Len(image.data) = 6

\* The byte of the source file that fill_image read as number i of this call.
SourceByte(i) == File(fsys, last.path)[last.start + i]

\* 10000 * (0.2126 R + 0.7152 G + 0.0722 B) for destination pixel k.
Luma10000(k) ==
    2126 * SourceByte(3 * k - 2) + 7152 * SourceByte(3 * k - 1) + 722 * SourceByte(3 * k)

FilledU8 == IsFill /\ last.result = "ok" /\ image.format = "U8"

\* C6 as stated: after a fill of a U8 image, pixel k in row-major order is
\* floor(0.2126 R + 0.7152 G + 0.0722 B) of source bytes 3k, 3k+1, 3k+2.
C6_FloorOfExactLuminance ==
    FilledU8 =>
        \A k \in 1..(loader.width * loader.height) :
            image.data[k] = Luma10000(k) \div 10000

\* C6 amended: pixel k is that floor, or one below it when the weighted sum is
\* a whole number (the single-precision sum may fall just short of it); black
\* gives 0, pure red 54, white 255.
C6_FloorOrOneBelowWhenWhole ==
    FilledU8 =>
        \A k \in 1..(loader.width * loader.height) :
            LET e == Luma10000(k)
                rgb == << SourceByte(3 * k - 2), SourceByte(3 * k - 1), SourceByte(3 * k) >>
            IN  /\ \/ image.data[k] = e \div 10000
                   \/ e % 10000 = 0 /\ image.data[k] = (e \div 10000) - 1
                /\ rgb = << 0, 0, 0 >> => image.data[k] = 0
                /\ rgb = << 255, 0, 0 >> => image.data[k] = 54
                /\ rgb = << 255, 255, 255 >> => image.data[k] \in {254, 255}

\* good.ppm filled into a U8 image: red, (13,13,13), white, black.
C6_Witness ==
    /\ FilledU8
    /\ last.path = "good.ppm"
    /\ last.start = 11
    /\ image.data = << 54, 12, 255, 0 >>

\* decimal text of a number below 100
Dec2(n) == IF n < 10 THEN << 48 + n >> ELSE << 48 + (n \div 10), 48 + (n % 10) >>

SavedU8 ==
    /\ IsSave
    /\ last.result = "ok"
    /\ last.arg.format = "U8"
    /\ num_dimensions(last.arg.shape) = 2

\* C7: a save_to_ppm of a two-dimensional U8 tensor that returns has produced
\* exactly "P6\n<w> <h> 255\n" followed by 3*w*h bytes, each pixel's byte three
\* times in a row, in row-major order.
C7_GrayWrittenThrice ==
    SavedU8 =>
        LET f == fsys[last.path]
            w == last.arg.shape[1]
            h == last.arg.shape[2]
            hdr == << 80, 54, 10 >> \o Dec2(w) \o << 32 >> \o Dec2(h) \o << 32, 50, 53, 53, 10 >>
        IN  /\ Len(f) = Len(hdr) + 3 * w * h
            /\ SubSeq(f, 1, Len(hdr)) = hdr
            /\ \A k \in 1..(w * h) : \A j \in 1..3 :
                   f[Len(hdr) + 3 * (k - 1) + j] = last.arg.data[k]

\* A 2 x 2 gray tensor holding a 200 was saved: 200, 200, 200 is in the file.
C7_Witness ==
    /\ SavedU8
    /\ last.arg.shape = << 2, 2 >>
    /\ \E k \in 1..4 :
          /\ last.arg.data[k] = 200
          /\ SubSeq(fsys[last.path], 11 + 3 * k - 2, 11 + 3 * k) = << 200, 200, 200 >>

\* C8: save_to_ppm rejects, with the precondition error, every tensor whose
\* format is neither U8 nor RGB888 and every tensor that has not exactly two
\* dimensions (one dimension as well as more than two), before the file is
\* touched and before the tensor is mapped.  Stated for calls during which the
\* device does not fail.
C8_RejectsAllButTwoDimensions ==
    /\ IsSave
    /\ last.fault = NoFault
    /\ Writable(last.path)
    /\ \/ last.arg.format \notin {"U8", "RGB888"}
       \/ num_dimensions(last.arg.shape) # 2
    => /\ last.result = "PreconditionViolation"
       /\ last.events = <<>>
       /\ last.nwritten = 0

\* C9: fill_image does not return normally from a partial fill.  A fill that
\* returned has read exactly width*height*3 bytes, moved the stream by as many,
\* and written every pixel (an RGB888 image holds those very bytes); a fill in
\* which the stream failed or hit end-of-file has ended in an error.
C9_NoSilentPartialFill ==
    IsFill =>
        /\ last.result = "ok" =>
              LET n == loader.width * loader.height IN
              /\ last.nread = 3 * n
              /\ loader.pos = last.start + 3 * n
              /\ last.nwritten = n * element_size(image.format)
              /\ image.format = "RGB888" =>
                    \A i \in 1..(3 * n) : image.data[i] = SourceByte(i)
        /\ last.streamFailed => last.result = "IOError"

\* A fill wrote some pixels, then met the end of the file, and ended in an error.
C9_Witness ==
    /\ IsFill
    /\ last.streamFailed
    /\ last.fault = NoFault
    /\ last.nwritten > 0
    /\ last.result = "IOError"

\* The pixel bytes the held file has after its header.
HeldDataBytes ==
    LET b == File(fsys, loader.path) IN Len(b) - parse_ppm_header(b).pos

Consumed ==
    /\ IsFill
    /\ last.filledBefore
    /\ loader.width * loader.height > 0
    /\ HeldDataBytes < 2 * loader.width * loader.height * 3

\* C10: after one successful fill_image of a non-empty image from a file with
\* fewer than 2*width*height*3 pixel bytes, no further fill_image on the
\* session returns normally.
C10_SessionConsumedByFill == Consumed => Failed

\* A second fill into a U8 image passed the size check and failed at end-of-file.
C10_Witness ==
    /\ Consumed
    /\ image.format = "U8"
    /\ last.result = "IOError"
    /\ last.msg = "Loading PPM file"
    /\ last.good
    /\ last.fault = NoFault

=============================================================================
